---- MODULE Spec2Model ----
(***************************************************************************)
(* MedAgentBench bridge of medagent-copilot: the round loop runTestCase,   *)
(* the record-server client sendFhirGet / sendFhirPost and the text        *)
(* handling they apply to one agent turn.                                  *)
(*                                                                         *)
(* A text is a sequence of one-character strings.  The literal phrases the *)
(* bridge itself writes into observer turns are kept as single elements.   *)
(***************************************************************************)
EXTENDS Integers, Sequences, FiniteSets, TLC

\* ------------------------------------------------------------------ bounds
MaxRoundsBound == 3

\* ------------------------------------------------------------ text helpers
NL == "\n"
Ws == {" ", NL, "\t"}

Drop(s, n) == SubSeq(s, n + 1, Len(s))

StartsWith(s, p) == Len(s) >= Len(p) /\ SubSeq(s, 1, Len(p)) = p

EndsWith(s, p) == Len(s) >= Len(p) /\ SubSeq(s, Len(s) - Len(p) + 1, Len(s)) = p

Includes(s, p) == \E i \in 1..(Len(s) - Len(p) + 1) : SubSeq(s, i, i + Len(p) - 1) = p

RECURSIVE TrimStart(_)
TrimStart(s) == IF s # <<>> /\ Head(s) \in Ws THEN TrimStart(Tail(s)) ELSE s

RECURSIVE TrimEnd(_)
TrimEnd(s) == IF s # <<>> /\ s[Len(s)] \in Ws THEN TrimEnd(SubSeq(s, 1, Len(s) - 1)) ELSE s

Trim(s) == TrimEnd(TrimStart(s))

\* s.replace(/<p>\n?/g, ""): every occurrence of p, with one following
\* newline when there is one, is removed, scanning left to right.
RECURSIVE RemoveAll(_, _)
RemoveAll(s, p) ==
  IF s = <<>> THEN <<>>
  ELSE IF StartsWith(s, p)
       THEN LET rest == Drop(s, Len(p))
            IN  IF rest # <<>> /\ Head(rest) = NL
                THEN RemoveAll(Tail(rest), p)
                ELSE RemoveAll(rest, p)
       ELSE <<Head(s)>> \o RemoveAll(Tail(s), p)

\* index of the first newline of s, 0 when there is none
RECURSIVE FirstNL(_, _)
FirstNL(s, i) == IF i > Len(s) THEN 0 ELSE IF s[i] = NL THEN i ELSE FirstNL(s, i + 1)

\* s.split("\n")[0]
FirstLine(s) == IF FirstNL(s, 1) = 0 THEN s ELSE SubSeq(s, 1, FirstNL(s, 1) - 1)

\* s.split("\n").slice(1).join("\n")
RestLines(s) == IF FirstNL(s, 1) = 0 THEN <<>> ELSE Drop(s, FirstNL(s, 1))

\* ------------------------------------------------------- literal markers
GetMarker    == <<"G", "E", "T", " ">>
PostMarker   == <<"P", "O", "S", "T", " ">>
FinishMarker == <<"F", "I", "N", "I", "S", "H", "(">>
CloseParen   == <<")">>
\* the backtick character (the element is spelled out)
BackTick     == "<backtick>"
Fence        == <<BackTick, BackTick, BackTick>>
FenceJson    == Fence \o <<"j", "s", "o", "n">>
FenceTool    == Fence \o <<"t", "o", "o", "l", "_", "c", "o", "d", "e">>
FormatKey    == <<"_", "f", "o", "r", "m", "a", "t", "=">>
FormatSuffix == <<"&">> \o FormatKey \o <<"j", "s", "o", "n">>

\* ------------------------------------------------------------- JSON.parse
\* The decoder covers the JSON the agent texts below use: non-negative
\* integers, strings without escapes, arrays, objects and insignificant
\* white space.  A decoded value is [kind, val].
Digits == {"0", "1", "2", "3", "4", "5", "6", "7", "8", "9"}
JsonWs == {" ", NL, "\t"}
Quote  == "\""

JNone == [kind |-> "none", val |-> <<>>]
JFail == [ok |-> FALSE, val |-> JNone, next |-> 0]

RECURSIVE SkipWs(_, _)
SkipWs(s, i) == IF i <= Len(s) /\ s[i] \in JsonWs THEN SkipWs(s, i + 1) ELSE i

\* index of the closing quote of a string opened before i, 0 when missing
RECURSIVE CloseQuote(_, _)
CloseQuote(s, i) ==
  IF i > Len(s) \/ s[i] = NL THEN 0 ELSE IF s[i] = Quote THEN i ELSE CloseQuote(s, i + 1)

RECURSIVE DigitsEnd(_, _)
DigitsEnd(s, i) == IF i <= Len(s) /\ s[i] \in Digits THEN DigitsEnd(s, i + 1) ELSE i

ParseString(s, i) ==
  IF i <= Len(s) /\ s[i] = Quote /\ CloseQuote(s, i + 1) # 0
  THEN [ok |-> TRUE,
        val |-> [kind |-> "str", val |-> SubSeq(s, i + 1, CloseQuote(s, i + 1) - 1)],
        next |-> CloseQuote(s, i + 1) + 1]
  ELSE JFail

ParseNumber(s, i) ==
  LET e == DigitsEnd(s, i)
  IN  IF e > i /\ (s[i] # "0" \/ e = i + 1)
      THEN [ok |-> TRUE, val |-> [kind |-> "num", val |-> SubSeq(s, i, e - 1)], next |-> e]
      ELSE JFail

RECURSIVE ParseValue(_, _)
RECURSIVE ParseElements(_, _, _)
RECURSIVE ParseMembers(_, _, _)

\* elements of an array after "[" or ",": i is at the next element
ParseElements(s, i, acc) ==
  LET v == ParseValue(s, i)
      j == SkipWs(s, v.next)
  IN  IF ~v.ok \/ j > Len(s) THEN JFail
      ELSE IF s[j] = "]"
           THEN [ok |-> TRUE, val |-> [kind |-> "arr", val |-> Append(acc, v.val)], next |-> j + 1]
           ELSE IF s[j] = "," THEN ParseElements(s, j + 1, Append(acc, v.val))
                ELSE JFail

\* members of an object after "{" or ",": i is at the next key
ParseMembers(s, i, acc) ==
  LET k == ParseString(s, SkipWs(s, i))
      c == SkipWs(s, k.next)
  IN  IF ~k.ok \/ c > Len(s) \/ s[c] # ":" THEN JFail
      ELSE LET v == ParseValue(s, c + 1)
               j == SkipWs(s, v.next)
               m == [kind |-> "mem", val |-> <<k.val, v.val>>]
           IN  IF ~v.ok \/ j > Len(s) THEN JFail
               ELSE IF s[j] = "}"
                    THEN [ok |-> TRUE, val |-> [kind |-> "obj", val |-> Append(acc, m)],
                          next |-> j + 1]
                    ELSE IF s[j] = "," THEN ParseMembers(s, j + 1, Append(acc, m))
                         ELSE JFail

ParseValue(s, i0) ==
  LET i == SkipWs(s, i0)
  IN  IF i > Len(s) THEN JFail
      ELSE IF s[i] = Quote THEN ParseString(s, i)
      ELSE IF s[i] \in Digits THEN ParseNumber(s, i)
      ELSE IF s[i] = "["
           THEN IF SkipWs(s, i + 1) <= Len(s) /\ s[SkipWs(s, i + 1)] = "]"
                THEN [ok |-> TRUE, val |-> [kind |-> "arr", val |-> <<>>],
                      next |-> SkipWs(s, i + 1) + 1]
                ELSE ParseElements(s, i + 1, <<>>)
      ELSE IF s[i] = "{"
           THEN IF SkipWs(s, i + 1) <= Len(s) /\ s[SkipWs(s, i + 1)] = "}"
                THEN [ok |-> TRUE, val |-> [kind |-> "obj", val |-> <<>>],
                      next |-> SkipWs(s, i + 1) + 1]
                ELSE ParseMembers(s, i + 1, <<>>)
      ELSE JFail

\* JSON.parse(s): [ok, val]; ok = FALSE is the SyntaxError
JsonParse(s) ==
  LET v == ParseValue(s, 1)
  IN  IF v.ok /\ SkipWs(s, v.next) > Len(s)
      THEN [ok |-> TRUE, val |-> v.val]
      ELSE [ok |-> FALSE, val |-> JNone]

\* --------------------------------------------------------- JSON.stringify
Spaces(n) == [k \in 1..n |-> " "]

RECURSIVE Stringify(_, _)
RECURSIVE StringifyItems(_, _, _)

\* the members of a non-empty array or object, one per line at depth d
StringifyItems(items, d, k) ==
  LET it  == items[k]
      one == IF it.kind = "mem"
             THEN Stringify(it.val[1], d) \o <<":", " ">> \o Stringify(it.val[2], d)
             ELSE Stringify(it, d)
  IN  <<NL>> \o Spaces(2 * d) \o one
      \o (IF k < Len(items) THEN <<",">> \o StringifyItems(items, d, k + 1) ELSE <<>>)

\* JSON.stringify(v, null, 2) of a decoded value, at nesting depth d
Stringify(v, d) ==
  IF v.kind = "str" THEN <<Quote>> \o v.val \o <<Quote>>
  ELSE IF v.kind = "num" THEN v.val
  ELSE IF v.kind = "arr"
       THEN IF v.val = <<>> THEN <<"[", "]">>
            ELSE <<"[">> \o StringifyItems(v.val, d + 1, 1) \o <<NL>> \o Spaces(2 * d) \o <<"]">>
  ELSE IF v.kind = "obj"
       THEN IF v.val = <<>> THEN <<"{", "}">>
            ELSE <<"{">> \o StringifyItems(v.val, d + 1, 1) \o <<NL>> \o Spaces(2 * d) \o <<"}">>
  ELSE <<>>

\* JavaScript truthiness of a decoded value (JNone is undefined)
Truthy(v) ==
  IF v.kind = "none" THEN FALSE
  ELSE IF v.kind = "str" THEN v.val # <<>>
  ELSE IF v.kind = "num" THEN v.val # <<"0">>
  ELSE TRUE

\* ------------------------------------------------------- turn normalising
\* response.trim().replace(tool_code fence).replace(json fence)
\*         .replace(plain fence).trim()
CleanNoFinalTrim(response) ==
  RemoveAll(RemoveAll(RemoveAll(Trim(response), FenceTool), FenceJson), Fence)

Clean(response) ==
  Trim(RemoveAll(RemoveAll(RemoveAll(Trim(response), FenceTool), FenceJson), Fence))

\* the branch runTestCase takes on the normalised text
\* (variant: FINISH is taken without looking at the end of the text)
ClassifyFinishOpen(trimmed) ==
  IF StartsWith(trimmed, GetMarker) THEN "GET"
  ELSE IF StartsWith(trimmed, PostMarker) THEN "POST"
  ELSE IF StartsWith(trimmed, FinishMarker) THEN "FINISH"
  ELSE "INVALID"

Classify(trimmed) ==
  IF StartsWith(trimmed, GetMarker) THEN "GET"
  ELSE IF StartsWith(trimmed, PostMarker) THEN "POST"
  ELSE IF StartsWith(trimmed, FinishMarker) /\ EndsWith(trimmed, CloseParen) THEN "FINISH"
  ELSE "INVALID"

\* trimmed.substring(4).trim()
GetUrl(trimmed) == Trim(Drop(trimmed, 4))

\* lines[0].substring(5).trim()
PostUrl(trimmed) == Trim(Drop(FirstLine(trimmed), 5))

\* lines.slice(1).join("\n").trim()
PayloadStr(trimmed) == Trim(RestLines(trimmed))

\* trimmed.slice(7, -1)
ResultStr(trimmed) == SubSeq(trimmed, 8, Len(trimmed) - 1)

\* url.includes("_format=") ? url : `${url}&_format=json`
WithFormat(url) == IF Includes(url, FormatKey) THEN url ELSE url \o FormatSuffix

\* --------------------------------------------------------- record server
\* What axios does with one request: it resolves with the decoded body, or
\* rejects with an error carrying a message.
DataBundle == [kind |-> "obj",
               val  |-> <<[kind |-> "mem",
                           val  |-> <<[kind |-> "str", val |-> <<"t">>],
                                      [kind |-> "num", val |-> <<"1">>]>>]>>]
DataEmpty  == [kind |-> "str", val |-> <<>>]
Http400    == <<"Request failed with status code 400">>

AxiosOutcomes ==
  { [ok |-> TRUE,  data |-> DataBundle, message |-> <<>>],
    [ok |-> TRUE,  data |-> DataEmpty,  message |-> <<>>],
    [ok |-> FALSE, data |-> JNone,      message |-> Http400] }

\* sendFhirGet / sendFhirPost: { data } or { error: error.message };
\* an absent field is JNone (data) or the empty sequence (error)
\* thrown tells whether the call rejected instead of returning
NoResult == [thrown |-> FALSE, data |-> JNone, error |-> <<>>]

\* (variant: the catch hands the failure on to the caller)
sendFhirGetRethrows(out) ==
  IF out.ok THEN [thrown |-> FALSE, data |-> out.data, error |-> <<>>]
  ELSE [thrown |-> TRUE, data |-> JNone, error |-> <<>>]

sendFhirGet(out) ==
  IF out.ok THEN [thrown |-> FALSE, data |-> out.data, error |-> <<>>]
  ELSE [thrown |-> FALSE, data |-> JNone, error |-> <<out.message>>]

sendFhirPost(out) ==
  IF out.ok THEN [thrown |-> FALSE, data |-> out.data, error |-> <<>>]
  ELSE [thrown |-> FALSE, data |-> JNone, error |-> <<out.message>>]

\* `${x}` of an optional text: undefined prints as "undefined"
Template(opt) == IF opt = <<>> THEN <<"undefined">> ELSE opt[1]

\* ------------------------------------------------------ observer phrases
InitialPrompt  == <<"You are an expert in using FHIR functions ... Question: ">>
FinishHint     == <<"Please call FINISH if you have got answers for all the questions and finished all the requested tasks">>
AcceptedMarker == <<"POST request accepted">>
GetOkPrefix    == <<"Here is the response from the GET request:", NL>>
GetErrPrefix   == <<"Error in sending the GET request: ">>
BadPostPrefix  == <<"Invalid POST request: ">>
SyntaxErrorMsg == <<"Unexpected token in JSON">>

GetOkTurn(data) == GetOkPrefix \o Stringify(data, 0) \o <<".", " ">> \o FinishHint
GetErrTurn(err) == GetErrPrefix \o Template(err)
PostOkTurn      == AcceptedMarker \o <<" and executed successfully", ".", " ">> \o FinishHint
BadPostTurn     == BadPostPrefix \o SyntaxErrorMsg

\* ------------------------------------------------------------ agent texts
\* The raw utterances agentInference may resolve with.
UrlQuery  == <<"u", "?", "a">>
UrlPlain  == <<"u">>
BodyObj   == <<"{", Quote, "a", Quote, ":", "1", "}">>
BodyBad   == <<"{", "a">>
AnswerOk  == <<"[", Quote, "o", "k", Quote, "]">>

TxtGet       == GetMarker \o UrlQuery
TxtGetFenced == FenceTool \o <<NL>> \o GetMarker \o UrlQuery \o <<"&">> \o FormatKey
                \o <<"x", NL>> \o Fence
TxtPost      == PostMarker \o UrlPlain \o <<NL>> \o BodyObj
TxtPostBad   == PostMarker \o UrlPlain \o <<NL>> \o BodyBad
TxtFinish    == FinishMarker \o AnswerOk \o CloseParen
TxtProse     == <<"h", "i">>

\* a GET without query string, a GET line followed by a FINISH call, and a
\* POST wrapped in a json fence
TxtGetPlain      == GetMarker \o UrlPlain
TxtGetThenFinish == TxtGet \o <<NL>> \o TxtFinish
TxtPostFenced    == FenceJson \o <<NL>> \o TxtPost \o <<NL>> \o Fence

AgentTexts == {TxtGet, TxtGetFenced, TxtGetPlain, TxtGetThenFinish, TxtPost, TxtPostFenced,
               TxtPostBad, TxtFinish, TxtProse}

\* ----------------------------------------------------- parseAgentResponse
\* The action parseAgentResponse returns: url is a text, payload a decoded
\* value or the raw text as a string value, answers <<>> when absent and
\* <<list of values>> otherwise.
Action(type, url, payload, answers) ==
  [type |-> type, url |-> url, payload |-> payload, answers |-> answers]

JString(text) == [kind |-> "str", val |-> text]

\* cleaned.startsWith("FINISH(") && cleaned.endsWith(")")
IsFinishTextNoClose(cleaned) == StartsWith(cleaned, FinishMarker)

IsFinishText(cleaned) == StartsWith(cleaned, FinishMarker) /\ EndsWith(cleaned, CloseParen)

\* try { payload = JSON.parse(payloadStr) } catch { payload = payloadStr }
PostPayloadRejectsRaw(payloadStr) ==
  IF JsonParse(payloadStr).ok THEN JsonParse(payloadStr).val ELSE JNone

PostPayload(payloadStr) ==
  IF JsonParse(payloadStr).ok THEN JsonParse(payloadStr).val ELSE JString(payloadStr)

\* try { Array.isArray(answers) ? answers : [answers] } catch { [answersStr] }
FinishAnswers(answersStr) ==
  LET parsed == JsonParse(answersStr)
  IN  IF parsed.ok
      THEN IF parsed.val.kind = "arr" THEN parsed.val.val ELSE <<parsed.val>>
      ELSE <<JString(answersStr)>>

parseAgentResponse(response) ==
  LET cleaned == Clean(response)
  IN  IF StartsWith(cleaned, GetMarker)
      THEN Action("GET", Trim(Drop(cleaned, 4)), JNone, <<>>)
      ELSE IF StartsWith(cleaned, PostMarker)
      THEN Action("POST", Trim(Drop(FirstLine(cleaned), 5)),
                  PostPayload(Trim(RestLines(cleaned))), <<>>)
      ELSE IF IsFinishText(cleaned)
      THEN Action("FINISH", <<>>, JNone,
                  <<FinishAnswers(SubSeq(cleaned, 8, Len(cleaned) - 1))>>)
      ELSE Action("INVALID", <<>>, JNone, <<>>)

\* The texts parseAgentResponse is applied to: an action text, bare or
\* wrapped in white space and in each of the three fence styles.
UrlFormat == UrlQuery \o <<"&">> \o FormatKey \o <<"x">>
ParserUrls == {UrlQuery, UrlPlain, UrlFormat}
ParserBodies ==
  {BodyObj, BodyBad, <<>>, <<"[", "1", "]">>, <<Quote, "s", Quote>>,
   <<"{", Quote, "a", Quote, ":", Quote>> \o Fence \o <<Quote, "}">>}
FinishBodies ==
  {AnswerOk, <<"[", "]">>, <<"[", "1", ",", " ", "2", "]">>, <<"1">>, <<Quote, "s", Quote>>,
   <<"{", "}">>, <<>>, <<"o", "k">>, <<"[", "1">>,
   <<"[", Quote>> \o Fence \o <<Quote, "]">>}

ParserCores ==
  {GetMarker \o u : u \in ParserUrls}
  \cup {PostMarker \o u \o <<NL>> \o b : u \in {UrlPlain, UrlQuery}, b \in ParserBodies}
  \cup {PostMarker \o UrlPlain}
  \cup {FinishMarker \o b \o CloseParen : b \in FinishBodies}
  \cup {TxtProse, TxtGetThenFinish, FinishMarker \o AnswerOk, <<"G", "E", "T">>,
        TxtGet \o <<NL>> \o TxtPost, TxtFinish \o <<NL>> \o TxtGet}

ParserOpens  == {<<>>, <<" ", NL>>, Fence \o <<NL>>, FenceJson \o <<NL>>, FenceTool \o <<NL>>,
                 Fence}
ParserCloses == {<<>>, <<NL, " ">>, <<NL>> \o Fence}

ParserTexts == {o \o c \o e : o \in ParserOpens, c \in ParserCores, e \in ParserCloses}

\* ------------------------------------------------------------------ state
VARIABLES
  maxRounds,   \* the maxRounds argument of runTestCase
  round,       \* the loop variable
  history,     \* the history array: turns [role, content]
  pc,          \* where the run is: "loop", "agent", "get", "post", "done", "rejected"
  ret,         \* the value the promise resolved with: <<>> or <<[success, result, rounds]>>
  agentCalls,  \* number of agentInference calls made
  requests,    \* the requests handed to axios, in order, each with its fate
  ptext,       \* the text handed to parseAgentResponse
  pout,        \* what parsing returned, in order: [cleaned, action]
  runs,        \* two runTestCase calls under way at once: their local variables
  heap,        \* the history arrays those calls allocated, by allocation order
  mbase,       \* MCP server: whether FHIR_API_BASE is a usable base URL
  mpc,         \* MCP server: "off", "idle", "wait" (a request is with axios), "done"
  mreqs,       \* MCP server: the requests handed to axios, in order
  mresp,       \* MCP server: the answers of the tool-call handler, in order
  rin,         \* domain rules: the rule asked for and its arguments
  rout         \* domain rules: <<>> or <<what the rule gave>>

vars == <<maxRounds, round, history, pc, ret, agentCalls, requests, ptext, pout, runs, heap,
          mbase, mpc, mreqs, mresp, rin, rout>>

\* the variables each part of the model leaves alone
outsideRun    == <<ptext, pout, runs, heap, mbase, mpc, mreqs, mresp, rin, rout>>
outsideParser == <<runs, heap, mbase, mpc, mreqs, mresp, rin, rout>>
outsidePair   == <<maxRounds, round, history, pc, ret, agentCalls, requests, ptext, pout,
                   mbase, mpc, mreqs, mresp, rin, rout>>
outsideMcp    == <<maxRounds, round, history, pc, ret, agentCalls, requests, ptext, pout,
                   runs, heap, rin, rout>>
outsideRules  == <<maxRounds, round, history, pc, ret, agentCalls, requests, ptext, pout,
                   runs, heap, mbase, mpc, mreqs, mresp>>

\* no runTestCase call, no parse, no pair of calls under way
RunIdle ==
  /\ maxRounds = 0
  /\ round = 0
  /\ history = <<>>
  /\ pc = "off"
  /\ ret = <<>>
  /\ agentCalls = 0
  /\ requests = <<>>

ParserIdle ==
  /\ ptext = <<>>
  /\ pout = <<>>

PairIdle ==
  /\ runs = <<>>
  /\ heap = <<>>

McpIdle ==
  /\ mbase = TRUE
  /\ mpc = "off"
  /\ mreqs = <<>>
  /\ mresp = <<>>

RulesIdle ==
  /\ rin = [rule |-> "none"]
  /\ rout = <<>>

UserTurn(text)  == [role |-> "user",  content |-> text]
AgentTurn(text) == [role |-> "agent", content |-> text]

\* the turn pushed after sendFhirGet returned result
GetObserverTurn(result) ==
  IF Truthy(result.data) THEN UserTurn(GetOkTurn(result.data))
  ELSE UserTurn(GetErrTurn(result.error))

\* the turn pushed after sendFhirPost returned result: the same turn
\* whatever result holds
PostObserverTurnNoMarker(result) ==
  UserTurn(<<"POST request executed", ".", " ">> \o FinishHint)

PostObserverTurn(result) == UserTurn(PostOkTurn)

\* the three return values; result is <<>> for null, <<text>> for a string
FinishReturnZeroBased(trimmed, r) ==
  [success |-> TRUE, result |-> <<ResultStr(trimmed)>>, rounds |-> r]

FinishReturn(trimmed, r) ==
  [success |-> TRUE, result |-> <<ResultStr(trimmed)>>, rounds |-> r + 1]

InvalidReturnZeroBased(r) == [success |-> FALSE, result |-> <<>>, rounds |-> r]

InvalidReturn(r) == [success |-> FALSE, result |-> <<>>, rounds |-> r + 1]

ExhaustedReturnCountsExit(m) == [success |-> FALSE, result |-> <<>>, rounds |-> m + 1]

ExhaustedReturn(m) == [success |-> FALSE, result |-> <<>>, rounds |-> m]

\* for (let round = 0; round < maxRounds; round++)
LoopGuardInclusive(r, m) == r <= m

LoopGuard(r, m) == r < m

\* a request as axios receives it; turn is the index of the agent turn it
\* comes from; status is "pending", "stalled" (no response will ever
\* arrive), "ok" or "error"; data and message are what axios settled with,
\* result is what sendFhirGet / sendFhirPost returned
Request(method, url, payload, turn, status) ==
  [method |-> method, url |-> url, payload |-> payload, turn |-> turn,
   status |-> status, data |-> JNone, message |-> <<>>, result |-> NoResult]

Init ==
  /\ maxRounds \in 0..MaxRoundsBound
  /\ round = 0
  /\ history = <<UserTurn(InitialPrompt)>>
  /\ pc = "loop"
  /\ ret = <<>>
  /\ agentCalls = 0
  /\ requests = <<>>
  /\ ParserIdle
  /\ PairIdle
  /\ McpIdle
  /\ RulesIdle

\* loop test passes: await agentInference(history)
CallAgent ==
  /\ pc = "loop"
  /\ LoopGuard(round, maxRounds)
  /\ pc' = "agent"
  /\ agentCalls' = agentCalls + 1
  /\ UNCHANGED <<outsideRun, maxRounds, round, history, ret, requests>>

\* (variant: a run that used up its budget hands back a history reset to
\* the initial prompt)
ReturnExhaustedRollsBack ==
  /\ pc = "loop"
  /\ ~LoopGuard(round, maxRounds)
  /\ pc' = "done"
  /\ ret' = <<ExhaustedReturn(maxRounds)>>
  /\ history' = <<history[1]>>
  /\ UNCHANGED <<outsideRun, maxRounds, round, agentCalls, requests>>

\* loop test fails: the return after the loop
ReturnExhausted ==
  /\ pc = "loop"
  /\ ~LoopGuard(round, maxRounds)
  /\ pc' = "done"
  /\ ret' = <<ExhaustedReturn(maxRounds)>>
  /\ UNCHANGED <<outsideRun, maxRounds, round, history, agentCalls, requests>>

\* agentInference rejects: nothing in runTestCase catches it
AgentThrows ==
  /\ pc = "agent"
  /\ pc' = "rejected"
  /\ UNCHANGED <<outsideRun, maxRounds, round, history, ret, agentCalls, requests>>

\* (variant: the read is not awaited, the loop goes on at once)
OnGetNoAwait ==
  /\ pc = "agent"
  /\ \E response \in AgentTexts, fate \in {"pending", "stalled"} :
       LET trimmed == Clean(response) IN
       /\ Classify(trimmed) = "GET"
       /\ history' = Append(history, AgentTurn(response))
       /\ requests' = Append(requests,
            Request("GET", WithFormat(WithFormat(GetUrl(trimmed))), JNone,
                    Len(history) + 1, fate))
  /\ round' = round + 1
  /\ pc' = "loop"
  /\ UNCHANGED <<outsideRun, maxRounds, ret, agentCalls>>

\* agent resolves with a GET turn: the request goes out
OnGet ==
  /\ pc = "agent"
  /\ \E response \in AgentTexts, fate \in {"pending", "stalled"} :
       LET trimmed == Clean(response) IN
       /\ Classify(trimmed) = "GET"
       /\ history' = Append(history, AgentTurn(response))
       /\ requests' = Append(requests,
            Request("GET", WithFormat(WithFormat(GetUrl(trimmed))), JNone,
                    Len(history) + 1, fate))
  /\ pc' = "get"
  /\ UNCHANGED <<outsideRun, maxRounds, round, ret, agentCalls>>

\* agent resolves with a POST turn whose body JSON.parse accepts
OnPost ==
  /\ pc = "agent"
  /\ \E response \in AgentTexts, fate \in {"pending", "stalled"} :
       LET trimmed == Clean(response) IN
       /\ Classify(trimmed) = "POST"
       /\ JsonParse(PayloadStr(trimmed)).ok
       /\ history' = Append(history, AgentTurn(response))
       /\ requests' = Append(requests,
            Request("POST", PostUrl(trimmed), JsonParse(PayloadStr(trimmed)).val,
                    Len(history) + 1, fate))
  /\ pc' = "post"
  /\ UNCHANGED <<outsideRun, maxRounds, round, ret, agentCalls>>

\* (variant: the rejected POST is not counted as a round)
OnPostBadJsonSameRound ==
  /\ pc = "agent"
  /\ \E response \in AgentTexts :
       LET trimmed == Clean(response) IN
       /\ Classify(trimmed) = "POST"
       /\ ~JsonParse(PayloadStr(trimmed)).ok
       /\ history' = history \o <<AgentTurn(response), UserTurn(BadPostTurn)>>
  /\ pc' = "loop"
  /\ UNCHANGED <<outsideRun, maxRounds, round, ret, agentCalls, requests>>

\* agent resolves with a POST turn whose body JSON.parse rejects: the catch
OnPostBadJson ==
  /\ pc = "agent"
  /\ \E response \in AgentTexts :
       LET trimmed == Clean(response) IN
       /\ Classify(trimmed) = "POST"
       /\ ~JsonParse(PayloadStr(trimmed)).ok
       /\ history' = history \o <<AgentTurn(response), UserTurn(BadPostTurn)>>
  /\ round' = round + 1
  /\ pc' = "loop"
  /\ UNCHANGED <<outsideRun, maxRounds, ret, agentCalls, requests>>

\* (variant: the agent's turn is pushed only when the run goes on)
OnFinishUnrecorded ==
  /\ pc = "agent"
  /\ \E response \in AgentTexts :
       LET trimmed == Clean(response) IN
       /\ Classify(trimmed) = "FINISH"
       /\ ret' = <<FinishReturn(trimmed, round)>>
  /\ pc' = "done"
  /\ UNCHANGED <<outsideRun, maxRounds, round, history, agentCalls, requests>>

\* agent resolves with a FINISH turn
OnFinish ==
  /\ pc = "agent"
  /\ \E response \in AgentTexts :
       LET trimmed == Clean(response) IN
       /\ Classify(trimmed) = "FINISH"
       /\ history' = Append(history, AgentTurn(response))
       /\ ret' = <<FinishReturn(trimmed, round)>>
  /\ pc' = "done"
  /\ UNCHANGED <<outsideRun, maxRounds, round, agentCalls, requests>>

\* (variant: the invalid branch falls through to the next round)
OnInvalidContinues ==
  /\ pc = "agent"
  /\ \E response \in AgentTexts :
       /\ Classify(Clean(response)) = "INVALID"
       /\ history' = Append(history, AgentTurn(response))
  /\ round' = round + 1
  /\ pc' = "loop"
  /\ UNCHANGED <<outsideRun, maxRounds, ret, agentCalls, requests>>

\* agent resolves with a turn in none of the three formats
OnInvalid ==
  /\ pc = "agent"
  /\ \E response \in AgentTexts :
       /\ Classify(Clean(response)) = "INVALID"
       /\ history' = Append(history, AgentTurn(response))
  /\ ret' = <<InvalidReturn(round)>>
  /\ pc' = "done"
  /\ UNCHANGED <<outsideRun, maxRounds, round, agentCalls, requests>>

\* the request in flight, settled with what axios did
Settle(out) ==
  [requests EXCEPT ![Len(requests)].status = IF out.ok THEN "ok" ELSE "error",
                   ![Len(requests)].data = out.data,
                   ![Len(requests)].message = out.message,
                   ![Len(requests)].result =
                       IF requests[Len(requests)].method = "GET"
                       THEN sendFhirGet(out) ELSE sendFhirPost(out)]

\* (variant: a failed read is sent once more before the turn is pushed)
GetReturnsRetries ==
  /\ pc = "get"
  /\ requests[Len(requests)].status = "pending"
  /\ \E out \in AxiosOutcomes :
       LET result == sendFhirGet(out)
           last   == requests[Len(requests)]
           first  == \A k \in 1..(Len(requests) - 1) : requests[k].turn # last.turn
       IN  IF ~out.ok /\ first
           THEN /\ requests' = Append(Settle(out),
                                  Request("GET", last.url, JNone, last.turn, "pending"))
                /\ UNCHANGED <<history, round, pc>>
           ELSE /\ history' = Append(history, GetObserverTurn(result))
                /\ requests' = Settle(out)
                /\ round' = round + 1
                /\ pc' = "loop"
  /\ UNCHANGED <<outsideRun, maxRounds, ret, agentCalls>>

\* axios.get settles: sendFhirGet returns and the observer turn is pushed
GetReturns ==
  /\ pc = "get"
  /\ requests[Len(requests)].status = "pending"
  /\ \E out \in AxiosOutcomes :
       LET result == sendFhirGet(out) IN
       /\ history' = Append(history, GetObserverTurn(result))
       /\ requests' = Settle(out)
  /\ round' = round + 1
  /\ pc' = "loop"
  /\ UNCHANGED <<outsideRun, maxRounds, ret, agentCalls>>

\* (variant: the confirmation is written over the last turn)
PostReturnsOverwrites ==
  /\ pc = "post"
  /\ requests[Len(requests)].status = "pending"
  /\ \E out \in AxiosOutcomes :
       LET result == sendFhirPost(out) IN
       /\ history' = [history EXCEPT ![Len(history)] = PostObserverTurn(result)]
       /\ requests' = Settle(out)
  /\ round' = round + 1
  /\ pc' = "loop"
  /\ UNCHANGED <<outsideRun, maxRounds, ret, agentCalls>>

\* axios.post settles: sendFhirPost returns, its result is not looked at
PostReturns ==
  /\ pc = "post"
  /\ requests[Len(requests)].status = "pending"
  /\ \E out \in AxiosOutcomes :
       LET result == sendFhirPost(out) IN
       /\ history' = Append(history, PostObserverTurn(result))
       /\ requests' = Settle(out)
  /\ round' = round + 1
  /\ pc' = "loop"
  /\ UNCHANGED <<outsideRun, maxRounds, ret, agentCalls>>

Next ==
  \/ CallAgent
  \/ ReturnExhausted
  \/ AgentThrows
  \/ OnGet
  \/ OnPost
  \/ OnPostBadJson
  \/ OnFinish
  \/ OnInvalid
  \/ GetReturns
  \/ PostReturns

Spec == Init /\ [][Next]_vars

\* every step of the run and every response that will arrive is taken
LiveSpec == Spec /\ WF_vars(Next)

\* the same, for the runs of a smaller round budget
LiveRoundsBound == 2

LiveInit == Init /\ maxRounds <= LiveRoundsBound

TerminationSpec == LiveInit /\ [][Next]_vars /\ WF_vars(Next)

\* ------------------------------------------- parseAgentResponse on its own
\* No run is under way; a text is parsed, then its normalised form is.
ParserInit ==
  /\ ptext \in ParserTexts
  /\ pout = <<>>
  /\ RunIdle
  /\ PairIdle
  /\ McpIdle
  /\ RulesIdle

Parsed(text) == [cleaned |-> Clean(text), action |-> parseAgentResponse(text)]

ParseText ==
  /\ pc = "off"
  /\ pout = <<>>
  /\ pout' = <<Parsed(ptext)>>
  /\ UNCHANGED <<outsideParser, ptext, maxRounds, round, history, pc, ret, agentCalls, requests>>

ParseNormalised ==
  /\ pc = "off"
  /\ Len(pout) = 1
  /\ pout' = Append(pout, Parsed(pout[1].cleaned))
  /\ UNCHANGED <<outsideParser, ptext, maxRounds, round, history, pc, ret, agentCalls, requests>>

ParserNext ==
  \/ ParseText
  \/ ParseNormalised

ParserSpec == ParserInit /\ [][ParserNext]_vars

\* ----------------------------------------- two runTestCase calls at once
\* Two calls are under way in one process; each step of a call runs from
\* one await to the next.  What the agent and the record server do for a
\* call is fixed by a script: step n holds what the n-th agentInference call
\* resolves with (or that it rejects) and what axios does with the request
\* of that round (or that no response arrives).
PairRoundsBound == 2

RunIds == {1, 2}

ScriptStep(text, throws, stalls, out) ==
  [text |-> text, throws |-> throws, stalls |-> stalls, out |-> out]

OutBundle == [ok |-> TRUE,  data |-> DataBundle, message |-> <<>>]
OutEmpty  == [ok |-> TRUE,  data |-> DataEmpty,  message |-> <<>>]
OutError  == [ok |-> FALSE, data |-> JNone,      message |-> Http400]

PairScripts ==
  { <<ScriptStep(TxtGet, FALSE, FALSE, OutBundle), ScriptStep(TxtFinish, FALSE, FALSE, OutBundle)>>,
    <<ScriptStep(TxtPost, FALSE, FALSE, OutError), ScriptStep(TxtProse, FALSE, FALSE, OutBundle)>>,
    <<ScriptStep(TxtPostBad, FALSE, FALSE, OutBundle),
      ScriptStep(TxtGetFenced, FALSE, FALSE, OutEmpty)>>,
    <<ScriptStep(TxtPostFenced, FALSE, FALSE, OutBundle),
      ScriptStep(TxtGetPlain, FALSE, FALSE, OutError),
      ScriptStep(TxtGet, TRUE, FALSE, OutBundle)>>,
    <<ScriptStep(TxtGetPlain, FALSE, TRUE, OutBundle)>> }

\* what the n-th agent call of a run gets
ScriptAt(script, n) == script[((n - 1) % Len(script)) + 1]

\* buildMedAgentPrompt(testCase, ...): the prompt ends with the question of
\* the test case; call r is given test case r
PairPrompt(r) == InitialPrompt \o <<IF r = 1 THEN "question 1" ELSE "question 2">>

\* const history = []: where the array of a new call lives.  heap is the
\* arrays allocated so far.
AllocHistoryShared(h) ==
  IF h = <<>> THEN [cell |-> 1, heap |-> <<<<>>>>] ELSE [cell |-> 1, heap |-> h]

AllocHistory(h) == [cell |-> Len(h) + 1, heap |-> Append(h, <<>>)]

\* One step of a call, from one await to the next (or to its return), on
\* the call's local variables L with L.history the array it holds.
StepRun(L, script) ==
  LET step    == ScriptAt(script, L.agentCalls)
      trimmed == Clean(step.text)
      pushed  == Append(L.history, AgentTurn(step.text))
  IN  IF L.pc = "loop"
      THEN IF LoopGuard(L.round, L.maxRounds)
           THEN [L EXCEPT !.pc = "agent", !.agentCalls = @ + 1]
           ELSE [L EXCEPT !.pc = "done", !.ret = <<ExhaustedReturn(L.maxRounds)>>]
      ELSE IF L.pc = "agent"
      THEN IF step.throws THEN [L EXCEPT !.pc = "rejected"]
           ELSE IF Classify(trimmed) = "GET"
           THEN [L EXCEPT !.history = pushed, !.pc = "get"]
           ELSE IF Classify(trimmed) = "POST"
           THEN IF JsonParse(PayloadStr(trimmed)).ok
                THEN [L EXCEPT !.history = pushed, !.pc = "post"]
                ELSE [L EXCEPT !.history = Append(pushed, UserTurn(BadPostTurn)),
                               !.round = @ + 1, !.pc = "loop"]
           ELSE IF Classify(trimmed) = "FINISH"
           THEN [L EXCEPT !.history = pushed, !.pc = "done",
                          !.ret = <<FinishReturn(trimmed, L.round)>>]
           ELSE [L EXCEPT !.history = pushed, !.pc = "done",
                          !.ret = <<InvalidReturn(L.round)>>]
      ELSE IF L.pc = "get" /\ ~step.stalls
      THEN [L EXCEPT !.history = Append(@, GetObserverTurn(sendFhirGet(step.out))),
                     !.round = @ + 1, !.pc = "loop"]
      ELSE IF L.pc = "post" /\ ~step.stalls
      THEN [L EXCEPT !.history = Append(@, PostObserverTurn(sendFhirPost(step.out))),
                     !.round = @ + 1, !.pc = "loop"]
      ELSE L

\* the local variables of call r, its history read through the heap
Local(r) ==
  [maxRounds |-> runs[r].maxRounds, round |-> runs[r].round, pc |-> runs[r].pc,
   ret |-> runs[r].ret, agentCalls |-> runs[r].agentCalls,
   history |-> heap[runs[r].cell]]

\* call r takes the step that leads to L2: its array in the heap and its
\* local variables are written
Store(r, L2) ==
  /\ heap' = [heap EXCEPT ![runs[r].cell] = L2.history]
  /\ runs' = [runs EXCEPT ![r].round = L2.round, ![r].pc = L2.pc, ![r].ret = L2.ret,
                          ![r].agentCalls = L2.agentCalls, ![r].steps = @ + 1]

PairInit ==
  /\ runs \in [RunIds -> [maxRounds : 0..PairRoundsBound, round : {0}, pc : {"new"},
                          ret : {<<>>}, agentCalls : {0}, script : PairScripts,
                          cell : {0}, steps : {0}]]
  /\ heap = <<>>
  /\ RunIdle
  /\ ParserIdle
  /\ McpIdle
  /\ RulesIdle

\* runTestCase is called: the history array is made and the prompt pushed
PairStart ==
  /\ \E r \in RunIds :
       /\ runs[r].pc = "new"
       /\ LET alloc == AllocHistory(heap) IN
          /\ heap' = [alloc.heap EXCEPT ![alloc.cell] = Append(@, UserTurn(PairPrompt(r)))]
          /\ runs' = [runs EXCEPT ![r].cell = alloc.cell, ![r].pc = "loop"]
  /\ UNCHANGED outsidePair

\* the loop test of one call: the agent is called or the call returns
PairLoopTest ==
  /\ \E r \in RunIds :
       /\ runs[r].pc = "loop"
       /\ Store(r, StepRun(Local(r), runs[r].script))
  /\ UNCHANGED outsidePair

\* the agent call of one call settles
PairAgentResolves ==
  /\ \E r \in RunIds :
       /\ runs[r].pc = "agent"
       /\ Store(r, StepRun(Local(r), runs[r].script))
  /\ UNCHANGED outsidePair

\* the request of one call settles
PairRequestSettles ==
  /\ \E r \in RunIds :
       /\ runs[r].pc \in {"get", "post"}
       /\ ~ScriptAt(runs[r].script, runs[r].agentCalls).stalls
       /\ Store(r, StepRun(Local(r), runs[r].script))
  /\ UNCHANGED outsidePair

PairNext ==
  \/ PairStart
  \/ PairLoopTest
  \/ PairAgentResolves
  \/ PairRequestSettles

PairSpec == PairInit /\ [][PairNext]_vars

\* ------------------------------------------------------------ MCP server
\* The tool-call handler of the MCP server, handleToolCall and the client
\* fhirGet / fhirPost.  Tool arguments are texts, <<>> when not given.
McpCallsBound == 1

ReadTools   == {"fhir_search_patient", "fhir_get_observations", "fhir_get_medication_requests",
                "fhir_get_conditions", "get_patient_by_mrn"}
CreateTools == {"fhir_create_observation", "fhir_create_medication_request",
                "fhir_create_service_request"}
UnknownTool == "fhir_delete_patient"

ArgKeys == {"name", "family", "given", "birthdate", "identifier", "patient", "code", "date",
            "category", "value", "effectiveDateTime", "medicationCode", "medicationDisplay",
            "doseValue", "doseUnit", "rateValue", "rateUnit", "route", "authoredOn",
            "codeSystem", "display", "note", "occurrenceDateTime", "mrn"}
RequiredKeys == {"patient", "code", "value", "effectiveDateTime", "medicationCode",
                 "medicationDisplay", "doseValue", "doseUnit", "authoredOn", "codeSystem",
                 "display", "mrn"}

\* the arguments of a call: every argument given, only the required ones
\* given, none given; an argument given holds its own name as text
McpArgs ==
  {[k \in ArgKeys |-> IF k \in given THEN <<k>> ELSE <<>>] : given \in {ArgKeys, RequiredKeys, {}}}

JMem(key, v) == [kind |-> "mem", val |-> <<JString(<<key>>), v>>]
JObj(mems)   == [kind |-> "obj", val |-> mems]

\* v[key] of a decoded value: JNone (undefined) when v is no object or has
\* no such member
RECURSIVE MemberAt(_, _, _)
MemberAt(mems, key, i) ==
  IF i > Len(mems) THEN JNone
  ELSE IF mems[i].val[1] = JString(<<key>>) THEN mems[i].val[2]
  ELSE MemberAt(mems, key, i + 1)

Member(v, key) == IF v.kind = "obj" THEN MemberAt(v.val, key, 1) ELSE JNone

\* JSON.stringify(v) without indentation
RECURSIVE StringifyCompact(_)
RECURSIVE StringifyCompactItems(_, _)
StringifyCompactItems(items, k) ==
  LET it  == items[k]
      one == IF it.kind = "mem"
             THEN StringifyCompact(it.val[1]) \o <<":">> \o StringifyCompact(it.val[2])
             ELSE StringifyCompact(it)
  IN  one \o (IF k < Len(items) THEN <<",">> \o StringifyCompactItems(items, k + 1) ELSE <<>>)

StringifyCompact(v) ==
  IF v.kind = "str" THEN <<Quote>> \o v.val \o <<Quote>>
  ELSE IF v.kind = "num" THEN v.val
  ELSE IF v.kind = "arr"
       THEN <<"[">> \o (IF v.val = <<>> THEN <<>> ELSE StringifyCompactItems(v.val, 1)) \o <<"]">>
  ELSE IF v.kind = "obj"
       THEN <<"{">> \o (IF v.val = <<>> THEN <<>> ELSE StringifyCompactItems(v.val, 1)) \o <<"}">>
  ELSE <<>>

\* an object literal: members whose value is undefined are left out when
\* the object is serialised
Defined(mems) == SelectSeq(mems, LAMBDA m : m.val[2].kind # "none")

ArgValue(args, key) == IF args[key] = <<>> THEN JNone ELSE JString(args[key])

\* what the FHIR server may answer a search with, and what axios does
PatientBundle ==
  JObj(<<JMem("entry",
     [kind |-> "arr",
      val  |-> <<JObj(<<JMem("resource",
                   JObj(<<JMem("id", JString(<<"p1">>)), JMem("name", JString(<<"n">>)),
                          JMem("birthDate", JString(<<"1963-01-29">>)),
                          JMem("gender", JString(<<"f">>))>>))>>)>>])>>)
EmptyBundle   == JObj(<<JMem("total", [kind |-> "num", val |-> <<"0">>])>>)
NetworkError  == <<"Network Error">>

\* (the server may also answer with a bundle whose first entry carries no
\* resource)
McpOutcomes ==
  { [ok |-> TRUE,  data |-> PatientBundle, message |-> <<>>,         status |-> <<>>],
    [ok |-> TRUE,
     data |-> JObj(<<JMem("entry", [kind |-> "arr",
                                    val  |-> <<JObj(<<JMem("fullUrl", JString(<<"u">>))>>)>>])>>),
     message |-> <<>>, status |-> <<>>],
    [ok |-> TRUE,  data |-> EmptyBundle,   message |-> <<>>,         status |-> <<>>],
    [ok |-> TRUE,  data |-> DataEmpty,     message |-> <<>>,         status |-> <<>>],
    [ok |-> FALSE, data |-> JNone,         message |-> Http400,      status |-> <<"4", "0", "0">>],
    [ok |-> FALSE, data |-> JNone,         message |-> NetworkError, status |-> <<>>] }

\* { error: error.message, status: error.response?.status }
ErrorDescriptor(out) ==
  JObj(Defined(<<JMem("error", JString(out.message)),
                 JMem("status", IF out.status = <<>> THEN JNone
                                ELSE [kind |-> "num", val |-> out.status])>>))

\* the entries of params the handler sets: key: args.key for the keys given
\* unconditionally, and for the optional keys whose argument is truthy
ParamPairs(args, keys) == [i \in 1..Len(keys) |-> <<keys[i], args[keys[i]]>>]

Truthies(pairs) == SelectSeq(pairs, LAMBDA q : q[2] # <<>>)

HandlerParams(name, args) ==
  IF name = "fhir_search_patient"
  THEN Truthies(ParamPairs(args, <<"name", "family", "given", "birthdate", "identifier">>))
  ELSE IF name = "fhir_get_observations"
  THEN ParamPairs(args, <<"patient">>) \o Truthies(ParamPairs(args, <<"code", "date", "category">>))
  ELSE IF name \in {"fhir_get_medication_requests", "fhir_get_conditions"}
  THEN ParamPairs(args, <<"patient">>) \o Truthies(ParamPairs(args, <<"category">>))
  ELSE <<<<"identifier", args["mrn"]>>>>

\* the endpoint each tool hands to fhirGet / fhirPost
Endpoint(name) ==
  IF name \in {"fhir_search_patient", "get_patient_by_mrn"} THEN "Patient"
  ELSE IF name \in {"fhir_get_observations", "fhir_create_observation"} THEN "Observation"
  ELSE IF name \in {"fhir_get_medication_requests", "fhir_create_medication_request"}
  THEN "MedicationRequest"
  ELSE IF name = "fhir_get_conditions" THEN "Condition"
  ELSE "ServiceRequest"

\* `Patient/${args.patient}`
PatientRef(args) == <<"Patient/">> \o Template(IF args["patient"] = <<>> THEN <<>>
                                               ELSE <<args["patient"]>>)

\* the resource a create tool builds from its arguments
CreateResource(name, args) ==
  IF name = "fhir_create_observation"
  THEN [resourceType |-> "Observation", status |-> "final", category |-> "vital-signs",
        code |-> args["code"], subject |-> PatientRef(args),
        effectiveDateTime |-> args["effectiveDateTime"], valueString |-> args["value"]]
  ELSE IF name = "fhir_create_medication_request"
  THEN [resourceType |-> "MedicationRequest", status |-> "active", intent |-> "order",
        code |-> args["medicationCode"], display |-> args["medicationDisplay"],
        subject |-> PatientRef(args), authoredOn |-> args["authoredOn"],
        doseValue |-> args["doseValue"], doseUnit |-> args["doseUnit"],
        route |-> args["route"],
        rate |-> IF args["rateValue"] # <<>> /\ args["rateUnit"] # <<>>
                 THEN <<args["rateValue"], args["rateUnit"]>> ELSE <<>>]
  ELSE [resourceType |-> "ServiceRequest", status |-> "active", intent |-> "order",
        priority |-> "stat", system |-> args["codeSystem"], code |-> args["code"],
        display |-> args["display"], subject |-> PatientRef(args),
        authoredOn |-> args["authoredOn"], note |-> args["note"],
        occurrenceDateTime |-> args["occurrenceDateTime"]]

\* fhirGet up to its await: new URL(endpoint, FHIR_API_BASE) throws when
\* the base is unusable; the truthy params and _format=json are appended
\* (variant: the read goes out with axios.post)
fhirGetRequestPosts(endpoint, params, base) ==
  [thrown |-> ~base, method |-> "POST", endpoint |-> endpoint,
   params |-> Truthies(params) \o <<<<"_format", <<"json">>>>>>, body |-> <<>>]

fhirGetRequest(endpoint, params, base) ==
  [thrown |-> ~base, method |-> "GET", endpoint |-> endpoint,
   params |-> Truthies(params) \o <<<<"_format", <<"json">>>>>>, body |-> <<>>]

fhirPostRequest(endpoint, data, base) ==
  [thrown |-> ~base, method |-> "POST", endpoint |-> endpoint, params |-> <<>>,
   body |-> <<data>>]

\* fhirGet / fhirPost from their await on: response.data, or the
\* descriptor; a result with thrown set carries the error thrown as value
\* (variant: the catch hands the failure on to the caller)
fhirGetRethrows(out) ==
  IF out.ok THEN [thrown |-> FALSE, value |-> out.data]
  ELSE [thrown |-> TRUE, value |-> JString(out.message)]

fhirGet(out) ==
  IF out.ok THEN [thrown |-> FALSE, value |-> out.data]
  ELSE [thrown |-> FALSE, value |-> ErrorDescriptor(out)]

fhirPost(out) ==
  IF out.ok THEN [thrown |-> FALSE, value |-> out.data]
  ELSE [thrown |-> FALSE, value |-> ErrorDescriptor(out)]

\* what the CallTool handler answers with
Response(name, args, text, isError) ==
  [name |-> name, args |-> args, text |-> text, isError |-> isError]

\* catch (error): { content: `Error: ${error.message}`, isError: true }
\* (variant: the answer is not flagged as an error)
ErrorResponseUnflagged(name, args, message) ==
  Response(name, args, <<"Error: ">> \o message, FALSE)

ErrorResponse(name, args, message) ==
  Response(name, args, <<"Error: ">> \o message, TRUE)

\* get_patient_by_mrn after fhirGet returned result
PatientByMrn(name, args, result) ==
  LET entry == Member(result, "entry")
  IN  IF entry.kind = "arr" /\ Len(entry.val) > 0
      THEN LET patient == Member(entry.val[1], "resource")
           IN  IF patient.kind = "none"
               THEN ErrorResponse(name, args,
                      <<"Cannot read properties of undefined (reading 'id')">>)
               ELSE Response(name, args,
                      Stringify(JObj(Defined(<<JMem("fhirId", Member(patient, "id")),
                                               JMem("mrn", ArgValue(args, "mrn")),
                                               JMem("name", Member(patient, "name")),
                                               JMem("birthDate", Member(patient, "birthDate")),
                                               JMem("gender", Member(patient, "gender"))>>)), 0),
                      FALSE)
      ELSE Response(name, args,
             StringifyCompact(JObj(Defined(<<JMem("error", JString(<<"Patient not found">>)),
                                             JMem("mrn", ArgValue(args, "mrn"))>>))),
             FALSE)

\* handleToolCall after the client returned (or threw), and the handler's
\* try / catch around it
AfterClient(name, args, result) ==
  IF result.thrown THEN ErrorResponse(name, args, result.value.val)
  ELSE IF name = "get_patient_by_mrn" THEN PatientByMrn(name, args, result.value)
  ELSE Response(name, args, Stringify(result.value, 0), FALSE)

\* a request as axios receives it, with the tool call it comes from
McpRequest(req, name, args, call, status) ==
  [method |-> req.method, endpoint |-> req.endpoint, params |-> req.params,
   body |-> req.body, name |-> name, args |-> args, call |-> call, status |-> status,
   data |-> JNone, message |-> <<>>, result |-> [thrown |-> FALSE, value |-> JNone]]

McpInit ==
  /\ mbase \in BOOLEAN
  /\ mpc = "idle"
  /\ mreqs = <<>>
  /\ mresp = <<>>
  /\ RunIdle
  /\ ParserIdle
  /\ PairIdle
  /\ RulesIdle

\* the handler takes a call: the request goes out, or building it throws
Dispatch(req, name, args, fate) ==
  IF req.thrown
  THEN /\ mresp' = Append(mresp, ErrorResponse(name, args, <<"Invalid URL">>))
       /\ mpc' = "done"
       /\ UNCHANGED mreqs
  ELSE /\ mreqs' = Append(mreqs, McpRequest(req, name, args, Len(mresp) + 1, fate))
       /\ mpc' = "wait"
       /\ UNCHANGED mresp

\* a call of one of the five read tools
McpCallRead ==
  /\ mpc \in {"idle", "done"}
  /\ Len(mresp) < McpCallsBound
  /\ \E name \in ReadTools, args \in McpArgs, fate \in {"pending", "stalled"} :
       Dispatch(fhirGetRequest(Endpoint(name), HandlerParams(name, args), mbase),
                name, args, fate)
  /\ UNCHANGED <<outsideMcp, mbase>>

\* a call of one of the three create tools
McpCallCreate ==
  /\ mpc \in {"idle", "done"}
  /\ Len(mresp) < McpCallsBound
  /\ \E name \in CreateTools, args \in McpArgs, fate \in {"pending", "stalled"} :
       Dispatch(fhirPostRequest(Endpoint(name), CreateResource(name, args), mbase),
                name, args, fate)
  /\ UNCHANGED <<outsideMcp, mbase>>

\* a call of a tool the switch does not know: the default branch
McpCallUnknown ==
  /\ mpc \in {"idle", "done"}
  /\ Len(mresp) < McpCallsBound
  /\ \E args \in McpArgs :
       mresp' = Append(mresp,
         Response(UnknownTool, args,
           StringifyCompact(JObj(<<JMem("error", JString(<<"Unknown tool: ", UnknownTool>>))>>)),
           FALSE))
  /\ mpc' = "done"
  /\ UNCHANGED <<outsideMcp, mbase, mreqs>>

\* axios settles: the client returns and the handler answers
McpClientReturns ==
  /\ mpc = "wait"
  /\ mreqs[Len(mreqs)].status = "pending"
  /\ \E out \in McpOutcomes :
       LET last   == mreqs[Len(mreqs)]
           result == IF last.method = "GET" THEN fhirGet(out) ELSE fhirPost(out)
       IN  /\ mreqs' = [mreqs EXCEPT ![Len(mreqs)].status = IF out.ok THEN "ok" ELSE "error",
                                      ![Len(mreqs)].data = out.data,
                                      ![Len(mreqs)].message = out.message,
                                      ![Len(mreqs)].result = result]
           /\ mresp' = Append(mresp, AfterClient(last.name, last.args, result))
  /\ mpc' = "done"
  /\ UNCHANGED <<outsideMcp, mbase>>

McpNext ==
  \/ McpCallRead
  \/ McpCallCreate
  \/ McpCallUnknown
  \/ McpClientReturns

McpSpec == McpInit /\ [][McpNext]_vars

\* --------------------------------------------- the bridge and the MCP server
\* The two programs of the repository: a behaviour is one of the bridge or
\* one of the MCP server.
SystemSpec == (Init \/ McpInit) /\ [][Next \/ McpNext]_vars

\* runTestCase and parseAgentResponse: a behaviour is a run of the one or
\* a parse by the other
BridgeSpec == (Init \/ ParserInit) /\ [][Next \/ ParserNext]_vars

\* ----------------------------------------------------------- domain rules
\* The rules of the knowledge files the agent answers the tasks by.  A lab
\* level is held in hundredths of its unit (1.5 mg/dL is 150), a date is
\* <<year, month, day>>.
LevelBound == 400

\* Task 5: an order is placed when Mg < 2.0; the dose table
MgOrderBelow == 200
\* mild 1.5-1.9, moderate 1.0-<1.5, severe <1.0: closed tells whether the
\* upper end belongs to the row
MgTiers ==
  { [from |-> 150, to |-> 190, closed |-> TRUE,  dose |-> 1, unit |-> "g", hours |-> 1],
    [from |-> 100, to |-> 150, closed |-> FALSE, dose |-> 2, unit |-> "g", hours |-> 2],
    [from |-> 0,   to |-> 100, closed |-> FALSE, dose |-> 4, unit |-> "g", hours |-> 4] }

\* the rows of the dose table a level falls into; no order at or above 2.0
magnesiumDose(level) ==
  IF level >= MgOrderBelow THEN {}
  ELSE {[dose |-> t.dose, unit |-> t.unit, hours |-> t.hours] :
          t \in {u \in MgTiers : /\ u.from <= level
                                  /\ (level < u.to \/ (u.closed /\ level = u.to))}}

\* Task 9: target 3.5, 10 mEq for every 0.1 below it
KTarget   == 350
KStep     == 10
KUnitDose == 10

\* round(num / den): the nearest integers; a tie has two (which one round
\* gives depends on the language and on the floating-point quotient)
RoundDown(num, den) == {num \div den}

RoundNearest(num, den) ==
  {q \in {num \div den, (num \div den) + 1} :
     2 * (IF num - q * den >= 0 THEN num - q * den ELSE q * den - num) <= den}

\* round((3.5 - k_value) / 0.1) * 10, only when K < 3.5
potassiumDeficitUnits(level) ==
  IF level >= KTarget THEN {}
  ELSE {q * KUnitDose : q \in RoundNearest(KTarget - level, KStep)}

\* date a is earlier than date b
DateBefore(a, b) ==
  \/ a[1] < b[1]
  \/ a[1] = b[1] /\ a[2] < b[2]
  \/ a[1] = b[1] /\ a[2] = b[2] /\ a[3] < b[3]

\* A1C check: a new test is ordered when the latest value is dated before
\* the day maxAgeYears before the reference day
isStaleInclusive(effectiveDate, asOf, maxAgeYears) ==
  ~DateBefore(<<asOf[1] - maxAgeYears, asOf[2], asOf[3]>>, effectiveDate)

isStale(effectiveDate, asOf, maxAgeYears) ==
  DateBefore(effectiveDate, <<asOf[1] - maxAgeYears, asOf[2], asOf[3]>>)

\* age: the years from the birth date to the reference day, the fraction
\* dropped
ageByCalendarYear(birthDate, asOf) == asOf[1] - birthDate[1]

age(birthDate, asOf) ==
  asOf[1] - birthDate[1]
    - (IF DateBefore(<<0, asOf[2], asOf[3]>>, <<0, birthDate[2], birthDate[3]>>) THEN 1 ELSE 0)

\* the arguments the rules are asked with
DaysIn(y, m) ==
  IF m = 2 THEN (IF y % 4 = 0 THEN 29 ELSE 28)
  ELSE IF m \in {4, 6, 9, 11} THEN 30 ELSE 31

DatesOf(years) == {<<y, m, d>> : y \in years, m \in 1..12, d \in 1..31} \ 
                  {<<y, m, d>> \in years \X (1..12) \X (1..31) : d > DaysIn(y, m)}

ReferenceDays == {<<2023, 11, 13>>, <<2024, 2, 29>>, <<2023, 1, 1>>}

RuleInputs ==
  [rule : {"magnesiumDose", "potassiumDeficitUnits"}, level : 0..LevelBound]
  \cup [rule : {"isStale"}, effectiveDate : DatesOf({2021, 2022, 2023}),
        asOf : ReferenceDays, maxAgeYears : {1, 2}]
  \cup [rule : {"age"}, birthDate : DatesOf({1963, 2000, 2022}), asOf : ReferenceDays]

RulesInit ==
  /\ rin \in RuleInputs
  /\ rout = <<>>
  /\ RunIdle
  /\ ParserIdle
  /\ PairIdle
  /\ McpIdle

EvalMagnesiumDose ==
  /\ rin.rule = "magnesiumDose"
  /\ rout = <<>>
  /\ rout' = <<magnesiumDose(rin.level)>>
  /\ UNCHANGED <<outsideRules, rin>>

\* the deficit is one of the values round gives
EvalPotassiumDeficit ==
  /\ rin.rule = "potassiumDeficitUnits"
  /\ rout = <<>>
  /\ \/ /\ potassiumDeficitUnits(rin.level) = {}
        /\ rout' = <<{}>>
     \/ \E units \in potassiumDeficitUnits(rin.level) : rout' = <<{units}>>
  /\ UNCHANGED <<outsideRules, rin>>

EvalIsStale ==
  /\ rin.rule = "isStale"
  /\ rout = <<>>
  /\ rout' = <<isStale(rin.effectiveDate, rin.asOf, rin.maxAgeYears)>>
  /\ UNCHANGED <<outsideRules, rin>>

EvalAge ==
  /\ rin.rule = "age"
  /\ rout = <<>>
  /\ rout' = <<age(rin.birthDate, rin.asOf)>>
  /\ UNCHANGED <<outsideRules, rin>>

RulesNext ==
  \/ EvalMagnesiumDose
  \/ EvalPotassiumDeficit
  \/ EvalIsStale
  \/ EvalAge

RulesSpec == RulesInit /\ [][RulesNext]_vars

\* ------------------------------------------------- the documented verifier
\* url = content.split('\n')[0][4:].strip()
VerifierUrl(content) == Trim(Drop(FirstLine(content), 4))

\* payload = json.loads('\n'.join(content.split('\n')[1:]))
VerifierPayload(content) == JsonParse(RestLines(content))

\* ------------------------------------------------------------- properties
AgentIdx == {i \in 1..Len(history) : history[i].role = "agent"}

\* the branch each agent text takes, and the one the agent turn at index i
\* of the history takes
AgentTextClass == [t \in AgentTexts |-> Classify(Clean(t))]

TurnClass(i) ==
    IF history[i].content \in AgentTexts
    THEN AgentTextClass[history[i].content]
    ELSE Classify(Clean(history[i].content))

\* 1-based round number of the agent turn at index i
RoundOf(i) == Cardinality({j \in AgentIdx : j <= i})

\* user turns of the history that carry the confirmation marker
AcceptedIdx ==
  {i \in 1..Len(history) :
     history[i].role = "user" /\ Includes(history[i].content, AcceptedMarker)}

\* a terminal outcome: a Complete turn, an Invalid turn, or the budget used
\* up with the last round finished
TerminalOutcome ==
  \/ /\ history[Len(history)].role = "agent"
     /\ TurnClass(Len(history)) \in {"FINISH", "INVALID"}
  \/ /\ pc \in {"loop", "done"}
     /\ agentCalls >= maxRounds

\* C1: once the run has reached a terminal outcome (Complete turn, Invalid
\* turn, budget used up) the agent is not invoked again and no further
\* request is handed to the record server.
C1_TerminalAbsorbing ==
  [][TerminalOutcome =>
       /\ agentCalls' = agentCalls
       /\ Len(requests') = Len(requests)
       /\ history' = history]_vars

C1_Witness ==
  /\ pc = "done"
  /\ TerminalOutcome
  /\ Len(requests) >= 1
  /\ TurnClass(Len(history)) = "INVALID"

\* C2: the agent is invoked at most maxRounds times, and a run none of
\* whose maxRounds agent turns is a Complete or an Invalid returns
\* success=false, result=null, rounds=maxRounds.
C2_BudgetExhausted ==
  /\ agentCalls <= maxRounds
  /\ Cardinality(AgentIdx) <= maxRounds
  /\ (pc = "done" /\ \A i \in AgentIdx : TurnClass(i) \in {"GET", "POST"})
        => /\ ret = <<[success |-> FALSE, result |-> <<>>, rounds |-> maxRounds]>>
           /\ agentCalls = maxRounds
           /\ Cardinality(AgentIdx) = maxRounds

C2_Witness ==
  /\ pc = "done"
  /\ maxRounds >= 2
  /\ agentCalls = maxRounds
  /\ \A i \in AgentIdx : TurnClass(i) \in {"GET", "POST"}
  /\ ~ret[1].success

\* C3: an agent turn in none of the three formats, in round k, ends the run
\* at once with success=false, result=null, rounds=k: it is the last turn
\* of the history, no request comes from it and no later round is started.
C3_InvalidIsFatal ==
  \A i \in AgentIdx :
    TurnClass(i) = "INVALID" =>
      /\ i = Len(history)
      /\ pc = "done"
      /\ ret = <<[success |-> FALSE, result |-> <<>>, rounds |-> RoundOf(i)]>>
      /\ agentCalls = RoundOf(i)
      /\ \A k \in 1..Len(requests) : requests[k].turn # i

C3_Witness ==
  /\ pc = "done"
  /\ Len(history) >= 4
  /\ TurnClass(Len(history)) = "INVALID"
  /\ history[Len(history)].role = "agent"
  /\ ret[1].rounds = 2
  /\ maxRounds > 2

\* C4: success is reported exactly when the last agent turn is a Complete;
\* rounds is then the 1-based index of that turn and result its inner
\* text; budget exhaustion reports success=false and null.  Read, Write
\* (accepted), Complete(["ok"]) gives rounds 3, ["ok"], one confirmation.
C4_SuccessIffComplete ==
  pc = "done" =>
    LET last == IF AgentIdx = {} THEN 0
                ELSE CHOOSE i \in AgentIdx : \A j \in AgentIdx : j <= i
    IN  /\ ret[1].success <=> (last # 0 /\ TurnClass(last) = "FINISH")
        /\ ret[1].success =>
             /\ ret[1].rounds = RoundOf(last)
             /\ last = Len(history)
             /\ ret[1].result = <<SubSeq(Clean(history[last].content),
                                         Len(FinishMarker) + 1,
                                         Len(Clean(history[last].content)) - 1)>>
        /\ ~ret[1].success => ret[1].result = <<>>
        /\ ( /\ Len(history) = 6
             /\ TurnClass(2) = "GET"
             /\ TurnClass(4) = "POST"
             /\ Len(requests) = 2
             /\ requests[2].status = "ok"
             /\ history[6].content = TxtFinish )
           => /\ ret[1] = [success |-> TRUE, result |-> <<AnswerOk>>, rounds |-> 3]
              /\ JsonParse(ret[1].result[1]).val
                   = [kind |-> "arr", val |-> <<[kind |-> "str", val |-> <<"o", "k">>]>>]
              /\ AcceptedIdx = {5}

C4_Witness ==
  /\ pc = "done"
  /\ Len(history) = 6
  /\ TurnClass(2) = "GET"
  /\ TurnClass(4) = "POST"
  /\ Len(requests) = 2
  /\ requests[2].status = "ok"
  /\ history[6].content = TxtFinish
  /\ ret[1].success

\* C5: every Write the server answered with success leaves exactly one
\* write record: the agent's POST turn, directly followed by exactly one
\* observer turn carrying 'POST request accepted', before the next agent
\* turn.
C5_AcceptedWriteRecorded ==
  \A k \in 1..Len(requests) :
    (requests[k].method = "POST" /\ requests[k].status = "ok") =>
      LET i == requests[k].turn
      IN  /\ history[i].role = "agent"
          /\ TurnClass(i) = "POST"
          /\ Len(history) >= i + 1
          /\ history[i + 1].role = "user"
          /\ Includes(history[i + 1].content, AcceptedMarker)
          /\ Len(history) >= i + 2 => history[i + 2].role = "agent"
          /\ \A j \in 1..Len(requests) : requests[j].turn = i => j = k

C5_Witness ==
  \E k \in 1..Len(requests) :
    /\ requests[k].method = "POST"
    /\ requests[k].status = "ok"
    /\ Len(history) >= requests[k].turn + 2
    /\ Includes(history[requests[k].turn + 1].content, AcceptedMarker)

\* C6: when a Write fails (sendFhirPost returns an error descriptor) the
\* observer turn of that round describes the error and does not carry
\* 'POST request accepted'.
C6_FailedWriteNotAccepted ==
  \A k \in 1..Len(requests) :
    (requests[k].method = "POST" /\ requests[k].status = "error") =>
      /\ ~Includes(history[requests[k].turn + 1].content, AcceptedMarker)
      /\ Includes(history[requests[k].turn + 1].content, requests[k].message)

\* C7: a Write whose body is not valid JSON is still handed to the record
\* server, with the raw body as payload, and the observer turn is not a
\* locally generated parse error.
C7_MalformedWriteForwarded ==
  \A i \in AgentIdx :
    ( /\ TurnClass(i) = "POST"
      /\ ~JsonParse(PayloadStr(Clean(history[i].content))).ok
      /\ Len(history) > i ) =>
        /\ \E k \in 1..Len(requests) :
             /\ requests[k].turn = i
             /\ requests[k].method = "POST"
        /\ ~Includes(history[i + 1].content, BadPostPrefix)

\* C8: a failed Read or Write is not fatal: one observer turn carrying the
\* error text follows the agent turn and the run goes on to the next round.
C8_TransportErrorFedBack ==
  \A k \in 1..Len(requests) :
    requests[k].status = "error" =>
      /\ Len(history) >= requests[k].turn + 1
      /\ history[requests[k].turn + 1].role = "user"
      /\ Includes(history[requests[k].turn + 1].content, requests[k].message)
      /\ (Len(history) = requests[k].turn + 1 /\ pc = "done") => agentCalls = maxRounds

\* C9: the caller always receives a result object: the run never ends in
\* a failure propagating out of the loop, also when the agent call fails.
C9_AlwaysAResult == pc # "rejected"

\* C10: a request that never gets a response is eventually turned into an
\* error return: its round completes and the run terminates.
C10_StalledCallReturns ==
  (pc \in {"get", "post"} /\ requests[Len(requests)].status = "stalled")
    ~> (pc \in {"loop", "done"})

\* C11: the history is append-only: every step leaves it as it was or
\* extends it at the end; no turn is changed, removed, reordered or
\* dropped, so the history returned lists the turns in the order pushed.
C11_HistoryAppendOnly ==
  [][/\ Len(history') >= Len(history)
     /\ SubSeq(history', 1, Len(history)) = history
     /\ Len(history') <= Len(history) + 2]_vars

C11_Witness ==
  /\ pc = "done"
  /\ Len(history) >= 6
  /\ \E i \in 1..Len(history) : Includes(history[i].content, AcceptedMarker)
  /\ \E i \in 1..Len(history) : Includes(history[i].content, BadPostPrefix)

\* C12: for every Write dispatched, the stored agent turn starts with
\* 'POST ' and the URL on its first line and holds the JSON payload on the
\* remaining lines, so the documented verifier parse of the stored turn
\* gives back the URL and payload that were sent; the next turn carries
\* 'POST request accepted'.
C12_StoredWriteReplays ==
  \A k \in 1..Len(requests) :
    requests[k].method = "POST" =>
      LET content == history[requests[k].turn].content
      IN  /\ StartsWith(content, PostMarker)
          /\ VerifierUrl(content) = requests[k].url
          /\ VerifierPayload(content).ok
          /\ VerifierPayload(content).val = requests[k].payload
          /\ Len(history) > requests[k].turn
               => Includes(history[requests[k].turn + 1].content, AcceptedMarker)

\* the url has a query string one of whose parameters is _format=json
FormatJson == FormatKey \o <<"j", "s", "o", "n">>

HasFormatJsonParam(url) ==
  \E q \in 1..Len(url) :
    /\ url[q] = "?"
    /\ \E i \in (q + 1)..Len(url) :
         /\ url[i - 1] \in {"?", "&"}
         /\ i + Len(FormatJson) - 1 <= Len(url)
         /\ SubSeq(url, i, i + Len(FormatJson) - 1) = FormatJson
         /\ (i + Len(FormatJson) - 1 = Len(url) \/ url[i + Len(FormatJson)] = "&")

\* C13: for every Read, whatever URL the agent gives, the URL handed to the
\* record server carries _format=json as a query parameter.
C13_ReadCarriesFormatJson ==
  \A k \in 1..Len(requests) :
    requests[k].method = "GET" => HasFormatJsonParam(requests[k].url)

\* C14: after every Read exactly one observer turn is pushed; it is the
\* error form exactly when the read returned an error descriptor, and for
\* every successful read, whatever the body, it holds the returned data
\* followed by the reminder to call FINISH.
C14_ReadObserverTurn ==
  \A k \in 1..Len(requests) :
    (requests[k].method = "GET" /\ requests[k].status \in {"ok", "error"}) =>
      LET i == requests[k].turn
      IN  /\ Len(history) >= i + 1
          /\ history[i + 1].role = "user"
          /\ Len(history) >= i + 2 => history[i + 2].role = "agent"
          /\ StartsWith(history[i + 1].content, GetErrPrefix)
               <=> requests[k].status = "error"
          /\ requests[k].status = "ok" =>
               history[i + 1].content
                 = GetOkPrefix \o Stringify(requests[k].data, 0) \o <<".", " ">> \o FinishHint

\* C15: parseAgentResponse returns exactly one action for every text,
\* decided on the normalised text in the order Read, Write, Complete: GET
\* iff it starts with 'GET '; else POST iff it starts with 'POST '; else
\* FINISH iff it starts with 'FINISH(' and ends with ')'; else INVALID.
\* No text passes two of the three tests.
C15_OneActionFixedOrder ==
  \A n \in 1..Len(pout) :
    LET c      == pout[n].cleaned
        type   == pout[n].action.type
        isGet  == Len(c) >= 4 /\ SubSeq(c, 1, 4) = <<"G", "E", "T", " ">>
        isPost == Len(c) >= 5 /\ SubSeq(c, 1, 5) = <<"P", "O", "S", "T", " ">>
        isFin  == /\ Len(c) >= 7
                  /\ SubSeq(c, 1, 7) = <<"F", "I", "N", "I", "S", "H", "(">>
                  /\ c[Len(c)] = ")"
    IN  /\ type \in {"GET", "POST", "FINISH", "INVALID"}
        /\ type = "GET" <=> isGet
        /\ type = "POST" <=> (~isGet /\ isPost)
        /\ type = "FINISH" <=> (~isGet /\ ~isPost /\ isFin)
        /\ type = "INVALID" <=> (~isGet /\ ~isPost /\ ~isFin)
        /\ ~(isGet /\ isPost) /\ ~(isGet /\ isFin) /\ ~(isPost /\ isFin)
        /\ n = 1 => c = Clean(ptext)

C15_Witness ==
  /\ Len(pout) = 2
  /\ pout[1].action.type = "INVALID"
  /\ StartsWith(pout[1].cleaned, FinishMarker)
  /\ ptext # pout[1].cleaned

\* positions of text c where a line starts with one of the three markers
ActionStarts(c) ==
  {i \in 1..Len(c) :
     /\ (i = 1 \/ c[i - 1] = NL)
     /\ \/ StartsWith(Drop(c, i - 1), GetMarker)
        \/ StartsWith(Drop(c, i - 1), PostMarker)
        \/ StartsWith(Drop(c, i - 1), FinishMarker)}

\* C16: an agent turn holding more than one action (a GET line followed by
\* a POST block or a FINISH call) is Invalid and fatal to the run: nothing
\* is dispatched for it and the run ends unsuccessfully on that turn.
C16_MixedTurnIsInvalid ==
  \A i \in AgentIdx :
    Cardinality(ActionStarts(Clean(history[i].content))) >= 2 =>
      /\ TurnClass(i) = "INVALID"
      /\ parseAgentResponse(history[i].content).type = "INVALID"
      /\ i = Len(history)
      /\ pc = "done"
      /\ \A k \in 1..Len(requests) : requests[k].turn # i

\* C17: each agent turn gives rise to at most one request, also when its
\* text holds several markers, and a failed request is not sent again: the
\* requests of a run never outnumber its agent turns.
C17_OneRequestPerTurn ==
  /\ Len(requests) <= Cardinality(AgentIdx)
  /\ \A k \in 1..Len(requests) : requests[k].turn \in AgentIdx
  /\ \A j, k \in 1..Len(requests) : requests[j].turn = requests[k].turn => j = k
  /\ \A k \in 1..Len(requests) :
       requests[k].method = (IF TurnClass(requests[k].turn) = "GET" THEN "GET" ELSE "POST")

C17_Witness ==
  /\ Len(requests) = 2
  /\ Cardinality(AgentIdx) = 3
  /\ history[requests[1].turn].content = TxtGetThenFinish
  /\ requests[1].status = "error"
  /\ requests[2].status = "error"

\* C18: for every text 'FINISH(' + body + ')': a body that is a JSON array
\* gives FINISH with the decoded array as answers; a body that is other
\* valid JSON gives the one-element array holding the decoded value; a body
\* that is not valid JSON (the empty body too) gives the one-element array
\* holding the inner text verbatim.  The text is never INVALID.
C18_FinishAnswers ==
  \A body \in FinishBodies :
    (ptext = FinishMarker \o body \o CloseParen /\ Len(pout) >= 1) =>
      LET act     == pout[1].action
          decoded == JsonParse(body)
      IN  /\ act.type = "FINISH"
          /\ (decoded.ok /\ decoded.val.kind = "arr") => act.answers = <<decoded.val.val>>
          /\ (decoded.ok /\ decoded.val.kind # "arr") => act.answers = <<<<decoded.val>>>>
          /\ ~decoded.ok => act.answers = <<<<[kind |-> "str", val |-> body]>>>>

\* C19: every text 'GET ' + url, bare or wrapped in a plain, tool_code or
\* json fence and in white space, parses to GET with the url unchanged; and
\* normalising is idempotent: the normalised text normalises to itself and
\* parses to the same action as the original.
C19_GetUrlKeptAndIdempotent ==
  /\ \A url \in ParserUrls, o \in ParserOpens, e \in ParserCloses :
       (ptext = o \o <<"G", "E", "T", " ">> \o url \o e /\ Len(pout) >= 1) =>
         /\ pout[1].action.type = "GET"
         /\ pout[1].action.url = url
  /\ Len(pout) = 2 =>
       /\ pout[2].cleaned = pout[1].cleaned
       /\ pout[2].action = pout[1].action

C19_Witness ==
  /\ Len(pout) = 2
  /\ ptext = FenceTool \o <<NL>> \o GetMarker \o UrlFormat \o <<NL>> \o Fence
  /\ pout[2].action.url = UrlFormat

\* C20: every normalised text that starts with 'POST ' parses to a POST
\* whose url is the rest of the first line, trimmed; the payload is the
\* decoded JSON when the remaining lines are JSON and the raw remaining
\* text otherwise; a body that does not parse never makes it INVALID.
C20_PostUrlAndPayload ==
  \A n \in 1..Len(pout) :
    LET c == pout[n].cleaned IN
    (Len(c) >= 5 /\ SubSeq(c, 1, 5) = <<"P", "O", "S", "T", " ">>) =>
      LET nl   == IF \E i \in 1..Len(c) : c[i] = NL
                  THEN CHOOSE i \in 1..Len(c) : c[i] = NL /\ \A j \in 1..(i - 1) : c[j] # NL
                  ELSE Len(c) + 1
          line == SubSeq(c, 6, nl - 1)
          rest == Trim(SubSeq(c, nl + 1, Len(c)))
      IN  /\ pout[n].action.type = "POST"
          /\ pout[n].action.url = Trim(line)
          /\ JsonParse(rest).ok => pout[n].action.payload = JsonParse(rest).val
          /\ ~JsonParse(rest).ok => pout[n].action.payload = [kind |-> "str", val |-> rest]

C20_Witness ==
  /\ Len(pout) = 2
  /\ pout[1].action.type = "POST"
  /\ pout[1].action.url = UrlQuery
  /\ pout[1].action.payload = [kind |-> "str", val |-> BodyBad]
  /\ ptext # pout[1].cleaned

\* C21: writes already issued are never rolled back or forgotten: when a
\* run ends unsuccessfully after accepted Writes, the history handed back
\* still holds each such Write's request turn and confirmation turn, in
\* the order issued, and every request sent stems from an agent turn of its
\* own kind: no compensating request goes to the record server.
C21_WritesNotRolledBack ==
  (pc = "done" /\ ~ret[1].success) =>
    /\ \A k \in 1..Len(requests) :
         (requests[k].method = "POST" /\ requests[k].status = "ok") =>
           LET i == requests[k].turn
           IN  /\ Len(history) >= i + 1
               /\ history[i].role = "agent"
               /\ TurnClass(i) = "POST"
               /\ history[i + 1].role = "user"
               /\ Includes(history[i + 1].content, AcceptedMarker)
    /\ \A j, k \in 1..Len(requests) : j < k => requests[j].turn < requests[k].turn
    /\ \A k \in 1..Len(requests) :
         /\ requests[k].method \in {"GET", "POST"}
         /\ requests[k].turn \in AgentIdx
         /\ TurnClass(requests[k].turn) = requests[k].method

C21_Witness ==
  /\ pc = "done"
  /\ ~ret[1].success
  /\ ret[1].rounds = maxRounds
  /\ history[Len(history)].role = "user"
  /\ \E k \in 1..Len(requests) : requests[k].method = "POST" /\ requests[k].status = "ok"
  /\ \E k \in 1..Len(requests) : requests[k].method = "GET"

\* requests handed to axios that have not settled
Outstanding == {k \in 1..Len(requests) : requests[k].status \in {"pending", "stalled"}}

\* C22: the rounds of a run are strictly sequential: at most one request
\* is outstanding, and only while the run waits for it; while an agent call
\* is outstanding no request is, every earlier request has its observer
\* turn in the history and the last turn is a user turn; the agent calls
\* made are the agent turns pushed plus the call under way.
C22_RoundsSequential ==
  /\ Cardinality(Outstanding) <= 1
  /\ Outstanding # {} => (pc \in {"get", "post"} /\ Outstanding = {Len(requests)})
  /\ pc = "agent" =>
       /\ Outstanding = {}
       /\ history[Len(history)].role = "user"
       /\ \A k \in 1..Len(requests) :
            /\ Len(history) >= requests[k].turn + 1
            /\ history[requests[k].turn + 1].role = "user"
  /\ agentCalls = Cardinality(AgentIdx) + (IF pc \in {"agent", "rejected"} THEN 1 ELSE 0)

C22_Witness ==
  /\ pc = "agent"
  /\ agentCalls = 3
  /\ Len(requests) = 2
  /\ requests[1].method = "GET"
  /\ requests[2].method = "POST"

\* the call r made on its own: its local variables after n steps
RECURSIVE AloneAfter(_, _, _)
AloneAfter(L, script, n) == IF n = 0 THEN L ELSE AloneAfter(StepRun(L, script), script, n - 1)

AloneStart(r) ==
  [maxRounds |-> runs[r].maxRounds, round |-> 0, pc |-> "loop", ret |-> <<>>,
   agentCalls |-> 0, history |-> <<UserTurn(PairPrompt(r))>>]

\* C23: two runTestCase calls interleaved in any order share no mutable
\* state: the history, round counter and result of each are, after each of
\* its steps, what the call gives on its own with the same agent outputs
\* and server responses; the two hold different history arrays and the
\* prompt of one never shows up in the history of the other.
C23_RunsIndependent ==
  \A r \in DOMAIN runs :
    runs[r].pc # "new" =>
      /\ Local(r) = AloneAfter(AloneStart(r), runs[r].script, runs[r].steps)
      /\ \A q \in DOMAIN runs \ {r} :
           /\ runs[q].pc # "new" => runs[q].cell # runs[r].cell
           /\ \A i \in 1..Len(heap[runs[r].cell]) :
                heap[runs[r].cell][i] # UserTurn(PairPrompt(q))

C23_Witness ==
  /\ DOMAIN runs = RunIds
  /\ runs[1].pc = "done"
  /\ runs[1].ret # <<>>
  /\ runs[1].ret[1].success
  /\ runs[2].pc = "post"
  /\ runs[1].cell = 2
  /\ Len(heap[runs[1].cell]) = 4
  /\ Len(heap[runs[2].cell]) = 2

\* requests that axios has settled
SettledIdx(reqs) == {k \in 1..Len(reqs) : reqs[k].status \in {"ok", "error"}}

C25_OnlyWritePosts ==
  /\ \A k \in 1..Len(requests) :
       /\ requests[k].turn \in AgentIdx
       /\ requests[k].method = "POST" <=> TurnClass(requests[k].turn) = "POST"
       /\ requests[k].method = "GET" <=> TurnClass(requests[k].turn) = "GET"
  /\ \A k \in 1..Len(mreqs) :
       /\ mreqs[k].method = "POST" <=>
            mreqs[k].name \in {"fhir_create_observation", "fhir_create_medication_request",
                               "fhir_create_service_request"}
       /\ mreqs[k].method = "GET" <=>
            mreqs[k].name \in {"fhir_search_patient", "fhir_get_observations",
                               "fhir_get_medication_requests", "fhir_get_conditions",
                               "get_patient_by_mrn"}
       /\ mreqs[k].method = "POST" => mreqs[k].body # <<>>
  /\ \A c \in 1..Len(mresp) :
       mresp[c].name = UnknownTool => \A k \in 1..Len(mreqs) : mreqs[k].call # c

C25_Witness ==
  /\ pc = "done"
  /\ ret[1].success
  /\ Len(requests) = 2
  /\ requests[1].method = "POST"
  /\ requests[2].method = "GET"
  /\ Cardinality(AgentIdx) = 3

\* C26: magnesiumDose follows the tiers: 1.5 to 1.9 gives 1 g over 1 h,
\* 1.0 to below 1.5 gives 2 g over 2 h, below 1.0 gives 4 g over 4 h, 2.0
\* and above gives no order; no level falls into two tiers and every level
\* below 2.0 falls into exactly one.
C26_MagnesiumTiers ==
  (rin.rule = "magnesiumDose" /\ rout # <<>>) =>
    LET level == rin.level
        given == rout[1]
    IN  /\ Cardinality(given) <= 1
        /\ (150 <= level /\ level <= 190) => given = {[dose |-> 1, unit |-> "g", hours |-> 1]}
        /\ (100 <= level /\ level < 150) => given = {[dose |-> 2, unit |-> "g", hours |-> 2]}
        /\ level < 100 => given = {[dose |-> 4, unit |-> "g", hours |-> 4]}
        /\ level >= 200 => given = {}
        /\ level < 200 => Cardinality(given) = 1

\* nearest multiple of ten to the hundredths below the target
DeficitOk(level, units) ==
  /\ units % 10 = 0
  /\ units - (350 - level) <= 5
  /\ (350 - level) - units <= 5

\* C27: potassiumDeficitUnits(level) is round((3.5 - level) / 0.1) * 10 for
\* every level below 3.5 (3.2 gives 30), a positive multiple of 10 for
\* every level at least one step below the target, and not computed for
\* levels of 3.5 and above.
C27_PotassiumDeficit ==
  (rin.rule = "potassiumDeficitUnits" /\ rout # <<>>) =>
    LET level == rin.level
        given == rout[1]
    IN  /\ level >= 350 <=> given = {}
        /\ level < 350 =>
             /\ Cardinality(given) = 1
             /\ \A units \in given : DeficitOk(level, units)
        /\ level = 320 => given = {30}
        /\ level <= 340 => \A units \in given : units > 0 /\ units % 10 = 0

C27_Witness ==
  /\ rin.rule = "potassiumDeficitUnits"
  /\ rin.level = 331
  /\ rout = <<{20}>>

\* days in order: a number that grows with the date
DayNumber(date) == date[1] * 10000 + date[2] * 100 + date[3]

\* C28: isStale(effectiveDate, asOf, maxAgeYears) is true exactly when
\* effectiveDate is strictly earlier than the day maxAgeYears before asOf:
\* 2022-11-13 against 2023-11-13 and one year is not stale, 2022-11-12 is.
C28_StaleStrictlyBefore ==
  (rin.rule = "isStale" /\ rout # <<>>) =>
    /\ rout[1] <=> DayNumber(rin.effectiveDate) < DayNumber(rin.asOf) - rin.maxAgeYears * 10000
    /\ (rin.asOf = <<2023, 11, 13>> /\ rin.maxAgeYears = 1) =>
         /\ rin.effectiveDate = <<2022, 11, 13>> => rout[1] = FALSE
         /\ rin.effectiveDate = <<2022, 11, 12>> => rout[1] = TRUE

C28_Witness ==
  /\ rin.rule = "isStale"
  /\ rin.effectiveDate = <<2022, 11, 13>>
  /\ rin.asOf = <<2023, 11, 13>>
  /\ rin.maxAgeYears = 1
  /\ rout = <<FALSE>>

\* C29: age(birthDate, asOf) is the number of whole years elapsed: the
\* birthday number age has come on or before asOf and the next one has not;
\* it is the difference of the years when this year's birthday has come
\* and one less otherwise, never more.  1963-01-29 at 2023-11-13 gives 60.
C29_AgeWholeYears ==
  (rin.rule = "age" /\ rout # <<>>) =>
    LET years   == rout[1]
        birth   == DayNumber(rin.birthDate)
        today   == DayNumber(rin.asOf)
        hadBday == rin.asOf[2] * 100 + rin.asOf[3] >= rin.birthDate[2] * 100 + rin.birthDate[3]
    IN  /\ birth + years * 10000 <= today
        /\ today < birth + (years + 1) * 10000
        /\ hadBday => years = rin.asOf[1] - rin.birthDate[1]
        /\ ~hadBday => years = rin.asOf[1] - rin.birthDate[1] - 1
        /\ (rin.birthDate = <<1963, 1, 29>> /\ rin.asOf = <<2023, 11, 13>>) => years = 60

C29_Witness ==
  /\ rin.rule = "age"
  /\ rin.birthDate = <<1963, 12, 1>>
  /\ rin.asOf = <<2023, 11, 13>>
  /\ rout = <<59>>

\* C30: normalising removes only the white space and the fence markup
\* around the action and leaves the action's content alone: for every url
\* and every body, a body holding a triple backtick inside a JSON string
\* value included, the text wrapped in white space or a fence parses to the
\* url and the payload of the text itself: the url as written, the payload
\* the decoded body (the raw body when it is not JSON).
C30_NormalisationKeepsContent ==
  \A o \in ParserOpens, e \in ParserCloses :
    /\ \A url \in ParserUrls :
         (ptext = o \o GetMarker \o url \o e /\ Len(pout) >= 1) =>
           /\ pout[1].action.type = "GET"
           /\ pout[1].action.url = url
    /\ \A url \in {UrlPlain, UrlQuery}, body \in ParserBodies :
         (ptext = o \o PostMarker \o url \o <<NL>> \o body \o e /\ Len(pout) >= 1) =>
           /\ pout[1].action.type = "POST"
           /\ pout[1].action.url = url
           /\ pout[1].action.payload =
                (IF JsonParse(Trim(body)).ok THEN JsonParse(Trim(body)).val
                 ELSE [kind |-> "str", val |-> Trim(body)])

\* every agent call made so far returned a text and no request is left
\* without a response
AllCallsReturn ==
  /\ pc # "rejected"
  /\ \A k \in 1..Len(requests) : requests[k].status # "stalled"

\* C31: if every agent invocation and every request to the record server
\* eventually returns, the run eventually terminates with a result; at no
\* time have more than maxRounds agent invocations or more than maxRounds
\* server requests been made.
C31_TerminatesWithinBudget ==
  /\ [](agentCalls <= maxRounds /\ Len(requests) <= maxRounds)
  /\ ([]AllCallsReturn) => <>(pc = "done" /\ Len(ret) = 1)

C31_Witness ==
  /\ pc = "done"
  /\ Len(ret) = 1
  /\ maxRounds >= 2
  /\ agentCalls = maxRounds
  /\ Len(requests) = maxRounds
  /\ AllCallsReturn

\* C32: the history starts with the task instruction as a user turn and
\* alternates user, agent, user, ...: at the loop test and while the agent
\* is invoked the last turn is a user turn and every round so far has added
\* one agent turn and one user turn after it; while a request is out the
\* round's agent turn is the last; a run that ended on a FINISH or on an
\* invalid turn ends with that agent turn, any other ended run with a user
\* turn.
C32_HistoryAlternates ==
  /\ history[1] = UserTurn(InitialPrompt)
  /\ \A i \in 1..Len(history) : history[i].role = (IF i % 2 = 1 THEN "user" ELSE "agent")
  /\ pc \in {"loop", "agent"} => Len(history) = 1 + 2 * round
  /\ pc \in {"get", "post"} => Len(history) = 2 + 2 * round
  /\ \A i \in AgentIdx :
       TurnClass(i) \in {"FINISH", "INVALID"} => (i = Len(history) /\ pc = "done")
  /\ pc = "done" =>
       IF history[Len(history)].role = "agent"
       THEN /\ TurnClass(Len(history)) \in {"FINISH", "INVALID"}
            /\ Len(history) = 2 * ret[1].rounds
       ELSE /\ ~ret[1].success
            /\ ret[1].rounds = maxRounds
            /\ Len(history) = 1 + 2 * maxRounds

C32_Witness ==
  /\ pc = "done"
  /\ Len(history) = 6
  /\ history[6].role = "agent"
  /\ ret[1].success
  /\ Len(requests) = 2
  /\ requests[1].method = "GET"
  /\ requests[2].method = "POST"

\* C33: for every maxRounds from 0 on, the rounds value handed back is the
\* number of agent invocations made, which is the number of agent turns of
\* the history handed back, and it is at most maxRounds.
C33_RoundsCountAgentCalls ==
  pc = "done" =>
    /\ ret[1].rounds = agentCalls
    /\ agentCalls = Cardinality(AgentIdx)
    /\ ret[1].rounds <= maxRounds

C33_Witness ==
  /\ pc = "done"
  /\ maxRounds = 3
  /\ ret[1].rounds = 3
  /\ ~ret[1].success
  /\ history[Len(history)].role = "user"
  /\ Cardinality(AgentIdx) = 3

\* what parseAgentResponse returns for each text an agent may answer with
AgentTextAction == [t \in AgentTexts |-> parseAgentResponse(t)]

\* the branch the run took on the agent turn at index i, read off what
\* the run did: the request it sent, the turn it pushed, the value it
\* returned
BranchTaken(i) ==
  IF \E k \in 1..Len(requests) : requests[k].turn = i
  THEN requests[CHOOSE k \in 1..Len(requests) : requests[k].turn = i].method
  ELSE IF i < Len(history) THEN "POST"
  ELSE IF pc = "done" /\ ret[1].success THEN "FINISH"
  ELSE "INVALID"

\* C34: the classification runTestCase makes inline agrees with
\* parseAgentResponse on every text: the run takes its GET, POST, FINISH
\* or invalid branch exactly when parseAgentResponse returns that type for
\* the agent's text; the url it asks for is the parser's url (with the
\* format parameter seen to, for a GET) and a POST it sends carries the
\* parser's payload; and for every text parsed, the branch, url and
\* decoded body the run computes from it are the parser's.
C34_InlineAgreesWithParser ==
  /\ \A i \in AgentIdx :
       LET act == AgentTextAction[history[i].content] IN
       /\ BranchTaken(i) = act.type
       /\ \A k \in 1..Len(requests) :
            requests[k].turn = i =>
              /\ act.type = "GET" => requests[k].url = WithFormat(WithFormat(act.url))
              /\ act.type = "POST" => /\ requests[k].url = act.url
                                       /\ requests[k].payload = act.payload
  /\ \A n \in 1..Len(pout) :
       LET trimmed == pout[n].cleaned
           act     == pout[n].action
       IN  /\ Classify(trimmed) = act.type
           /\ act.type = "GET" => act.url = GetUrl(trimmed)
           /\ act.type = "POST" =>
                /\ act.url = PostUrl(trimmed)
                /\ JsonParse(PayloadStr(trimmed)).ok =>
                     act.payload = JsonParse(PayloadStr(trimmed)).val

C34_Witness ==
  /\ pc = "done"
  /\ Len(requests) = 2
  /\ requests[1].method = "GET"
  /\ requests[2].method = "POST"
  /\ requests[2].payload = AgentTextAction[history[requests[2].turn].content].payload
  /\ history[requests[1].turn].content = TxtGetFenced
  /\ BranchTaken(Len(history)) = "INVALID"

\* the request the tool call number c sent, as a set (empty when it sent
\* none)
RequestsOf(c) == {k \in 1..Len(mreqs) : mreqs[k].call = c}

\* the search answered with a first entry that carries no resource
BareFirstEntry(c) ==
  \E k \in RequestsOf(c) :
    /\ mreqs[k].status = "ok"
    /\ Member(mreqs[k].data, "entry").kind = "arr"
    /\ Len(Member(mreqs[k].data, "entry").val) > 0
    /\ Member(Member(mreqs[k].data, "entry").val[1], "resource").kind = "none"

\* C35: the tool-call handler always answers with a content response: a
\* call whose request has settled, or that sent none, has its answer; an
\* unknown tool gets the JSON error 'Unknown tool: <name>', not flagged,
\* and no request goes to the FHIR server; an exception raised while the
\* tool is handled (the request url cannot be built, the first entry of a
\* patient search has no resource) gives an answer with isError set that
\* carries 'Error: ' and the message; no other answer has isError set.
C35_HandlerAlwaysAnswers ==
  /\ mpc = "done" => Len(mresp) >= 1
  /\ \A k \in SettledIdx(mreqs) : mreqs[k].call <= Len(mresp)
  /\ \A c \in 1..Len(mresp) :
       LET r == mresp[c] IN
       /\ r.isError \in BOOLEAN
       /\ r.text # <<>>
       /\ r.name = UnknownTool =>
            /\ r.text = <<"{", Quote, "error", Quote, ":", Quote,
                          "Unknown tool: ", r.name, Quote, "}">>
            /\ ~r.isError
            /\ RequestsOf(c) = {}
       /\ (r.name # UnknownTool /\ ~mbase) =>
            /\ r.isError
            /\ r.text = <<"Error: ", "Invalid URL">>
            /\ RequestsOf(c) = {}
       /\ r.isError => (Head(r.text) = "Error: " /\ Len(r.text) >= 2)
       /\ r.isError <=>
            \/ r.name # UnknownTool /\ ~mbase
            \/ r.name = "get_patient_by_mrn" /\ BareFirstEntry(c)

C35_Witness ==
  /\ mpc = "done"
  /\ ~mbase
  /\ Len(mresp) = 1
  /\ mresp[1].name = "fhir_create_observation"
  /\ mresp[1].isError
  /\ mreqs = <<>>

\* C36: get_patient_by_mrn sends exactly one Patient search by identifier;
\* when the search result has at least one entry the answer holds the
\* fhirId, name, birthDate and gender of the first entry (and the mrn), and
\* in every other case, a search that failed with a transport or HTTP
\* error included, the answer is the error 'Patient not found' with the
\* mrn.
C36_PatientByMrn ==
  \A c \in 1..Len(mresp) :
    mresp[c].name = "get_patient_by_mrn" =>
      LET r   == mresp[c]
          mrn == ArgValue(r.args, "mrn")
      IN  /\ Cardinality(RequestsOf(c)) = 1
          /\ ~r.isError
          /\ \A k \in RequestsOf(c) :
               LET entry == Member(mreqs[k].data, "entry")
                   found == /\ mreqs[k].status = "ok"
                            /\ entry.kind = "arr"
                            /\ Len(entry.val) > 0
               IN  /\ mreqs[k].method = "GET"
                   /\ mreqs[k].endpoint = "Patient"
                   /\ mreqs[k].params = <<<<"identifier", r.args["mrn"]>>, <<"_format", <<"json">>>>>>
                   /\ found =>
                        LET patient == Member(entry.val[1], "resource") IN
                        r.text = Stringify(JObj(Defined(
                                   <<JMem("fhirId", Member(patient, "id")),
                                     JMem("mrn", mrn),
                                     JMem("name", Member(patient, "name")),
                                     JMem("birthDate", Member(patient, "birthDate")),
                                     JMem("gender", Member(patient, "gender"))>>)), 0)
                   /\ ~found =>
                        r.text = StringifyCompact(JObj(Defined(
                                   <<JMem("error", JString(<<"Patient not found">>)),
                                     JMem("mrn", mrn)>>)))

====
